---- MODULE Spec2Model ----
(***************************************************************************)
(* Model of ir_collect.py (IRCollector): the evidence-collection pipeline  *)
(* run_collection, its 8 collectors, run_command and save_results.         *)
(*                                                                         *)
(* Representation of Python values                                         *)
(*   str (free text)   a sequence of one-character strings; "" is <<>>     *)
(*   token             a str without whitespace                            *)
(*   line              the sequence of the whitespace-separated tokens of  *)
(*                     one '\n'-delimited line; <<>> is a blank line       *)
(*   tool output       line-oriented tools (ps, ss, ip, find, systemctl):  *)
(*                     a sequence of raw lines as the tool wrote them,     *)
(*                     each raw line a sequence of one or more lines       *)
(*                     separated by '\r'; other tools: a str               *)
(*   list              a sequence;  dict: a function on strings (record)   *)
(***************************************************************************)
EXTENDS Integers, Sequences, FiniteSets, TLC

VARIABLES
    host,      \* the machine the tool runs on: what every data source yields
    pc,        \* position of run_collection: the next step to execute
    data,      \* IRCollector.data, the snapshot
    exc,       \* the exception that left run_collection, "none" if none
    ran,       \* the collectors invoked so far, in invocation order
    calls,     \* every run_command call so far: command, outcome, returned text
    artifact   \* what save_results wrote and returned, NoArtifact before

vars == <<host, pc, data, exc, ran, calls, artifact>>

----------------------------------------------------------------------------
(* Program constants.                                                      *)

ProcessCap == 100
CommandCap == 100
RecentCap == 50
CronCap == 1000
RcLocalCap == 500
SsHead == 100
FindHead == 100
TimersHead == 20
ServicesHead == 50
SplitMaxsplit == 10
PasswdFields == 7
PsFields == 11
SsFields == 5
RealUid == 1000

(* Bounds of the model.                                                    *)

MaxOver == 2       \* how far an input may exceed a cap or a head limit
MaxPasswd == 3     \* lines of /etc/passwd
MaxStdout == 2     \* characters of stdout in the run_command outcomes

----------------------------------------------------------------------------
(* Strings and lines.                                                      *)

Min(a, b) == IF a < b THEN a ELSE b

\* s[:n]
Take(s, n) == SubSeq(s, 1, Min(Len(s), n))

\* s[n:]
Drop(s, n) == SubSeq(s, n + 1, Len(s))

\* The two halves of a sequence of two elements or more.
FirstHalf(s) == SubSeq(s, 1, Len(s) \div 2)

SecondHalf(s) == SubSeq(s, (Len(s) \div 2) + 1, Len(s))

\* n copies of the character c
Rep(n, c) == [i \in 1..n |-> c]

DigitChar == <<"0", "1", "2", "3", "4", "5", "6", "7", "8", "9">>

\* str(n) for n >= 0
RECURSIVE Decimal(_)
Decimal(n) ==
    IF n < 10 THEN <<DigitChar[n + 1]>>
    ELSE Decimal(n \div 10) \o <<DigitChar[(n % 10) + 1]>>

Whitespace == {" ", "\n", "\t", "\r"}

\* str.strip() of a free text
RECURSIVE LStrip(_)
LStrip(s) ==
    IF s # <<>> /\ Head(s) \in Whitespace THEN LStrip(Tail(s)) ELSE s

RECURSIVE RStrip(_)
RStrip(s) ==
    IF s # <<>> /\ s[Len(s)] \in Whitespace
    THEN RStrip(SubSeq(s, 1, Len(s) - 1)) ELSE s

Strip(s) == RStrip(LStrip(s))

\* " ".join(tokens)
RECURSIVE JoinTokens(_)
JoinTokens(ts) ==
    IF ts = <<>> THEN <<>>
    ELSE IF Len(ts) = 1 THEN ts[1]
    ELSE ts[1] \o <<" ">> \o JoinTokens(Tail(ts))

\* line.split(None, maxsplit): at most maxsplit + 1 parts, the last one the
\* rest of the line
SplitNone(line, maxsplit) ==
    IF Len(line) <= maxsplit THEN line
    ELSE SubSeq(line, 1, maxsplit) \o <<JoinTokens(Drop(line, maxsplit))>>

\* The lines of a blank-stripped text: leading and trailing blank lines go.
DropLeadingBlank(ls) ==
    IF \A i \in 1..Len(ls) : ls[i] = <<>> THEN <<>>
    ELSE Drop(ls, (CHOOSE i \in 1..Len(ls) :
                      ls[i] # <<>> /\ \A j \in 1..(i - 1) : ls[j] = <<>>) - 1)

DropTrailingBlank(ls) ==
    IF \A i \in 1..Len(ls) : ls[i] = <<>> THEN <<>>
    ELSE Take(ls, CHOOSE i \in 1..Len(ls) :
                      ls[i] # <<>> /\ \A j \in (i + 1)..Len(ls) : ls[j] = <<>>)

\* output.strip().split('\n') of a line-oriented text: "" splits to ['']
StripSplitLines(ls) ==
    LET core == DropTrailingBlank(DropLeadingBlank(ls))
    IN  IF core = <<>> THEN << <<>> >> ELSE core

\* output.split('\n') of a line-oriented text: every line of a tool ends in
\* '\n', so the split ends with one empty string
SplitLines(ls) == ls \o << <<>> >>

\* s.split(c) of a free text: the parts between the occurrences of c
RECURSIVE SplitOn(_, _)
SplitOn(s, c) ==
    IF \A i \in 1..Len(s) : s[i] # c THEN <<s>>
    ELSE LET k == CHOOSE i \in 1..Len(s) :
                      s[i] = c /\ \A j \in 1..(i - 1) : s[j] # c
         IN  <<SubSeq(s, 1, k - 1)>> \o SplitOn(Drop(s, k), c)

\* c.join(parts)
RECURSIVE JoinWith(_, _)
JoinWith(parts, c) ==
    IF parts = <<>> THEN <<>>
    ELSE IF Len(parts) = 1 THEN parts[1]
    ELSE parts[1] \o <<c>> \o JoinWith(Tail(parts), c)

\* The characters of a decimal literal and their values.
DigitValue(ch) == CHOOSE d \in 0..9 : DigitChar[d + 1] = ch

IsDigit(ch) == \E d \in 0..9 : DigitChar[d + 1] = ch

RECURSIVE DigitsValue(_)
DigitsValue(s) ==
    IF s = <<>> THEN 0
    ELSE 10 * DigitsValue(SubSeq(s, 1, Len(s) - 1)) + DigitValue(s[Len(s)])

\* int(s): surrounding whitespace and one sign are accepted, anything else
\* that is not a decimal digit raises ValueError
ParseInt(s) ==
    LET t == Strip(s)
        signed == t # <<>> /\ t[1] \in {"-", "+"}
        digits == IF signed THEN Tail(t) ELSE t
    IN  IF digits # <<>> /\ \A i \in 1..Len(digits) : IsDigit(digits[i])
        THEN [ok |-> TRUE,
              val |-> IF signed /\ t[1] = "-" THEN 0 - DigitsValue(digits)
                      ELSE DigitsValue(digits)]
        ELSE [ok |-> FALSE, val |-> 0]

----------------------------------------------------------------------------
(* The external commands of the collectors, by their command line.         *)

UPTIME == "uptime -p"
UNAME == "uname -r"
PS == "ps aux --no-headers"
SS == "ss -tunapl 2>/dev/null | head -100"
SSL == "ss -tlnp 2>/dev/null"
IPADDR == "ip addr show"
WHO == "who"
CRONTAB == "cat /etc/crontab 2>/dev/null"
USERCRON == "crontab -l 2>/dev/null"
TIMERS == "systemctl list-timers --no-pager 2>/dev/null | head -20"
SERVICES == "systemctl list-unit-files --type=service --state=enabled --no-pager 2>/dev/null | head -50"
RCLOCAL == "cat /etc/rc.local 2>/dev/null"
FIND == "find /home /tmp /var/log -mtime -1 -type f 2>/dev/null | head -100"

log_files == <<"/var/log/auth.log", "/var/log/syslog",
               "/var/log/secure", "/var/log/messages">>

TailCmd(i) ==
    CASE i = 1 -> "tail -50 /var/log/auth.log 2>/dev/null"
      [] i = 2 -> "tail -50 /var/log/syslog 2>/dev/null"
      [] i = 3 -> "tail -50 /var/log/secure 2>/dev/null"
      [] i = 4 -> "tail -50 /var/log/messages 2>/dev/null"

cron_dirs == <<"/etc/cron.d", "/etc/cron.daily", "/etc/cron.hourly">>

INITD == "/etc/init.d"

\* The commands whose output the collectors read line by line.
LineCommands == {PS, SS, SSL, IPADDR, WHO, TIMERS, SERVICES, FIND}

\* The "| head -N" that ends a command line; 0 when there is none.
HeadLimit(cmd) ==
    CASE cmd = SS -> SsHead
      [] cmd = FIND -> FindHead
      [] cmd = TIMERS -> TimersHead
      [] cmd = SERVICES -> ServicesHead
      [] OTHER -> 0

\* What the shell pipeline writes to the captured stdout: head passes the
\* first N newline-terminated lines of the tool's output.
ShellStdout(cmd, out) ==
    IF HeadLimit(cmd) > 0 THEN Take(out, HeadLimit(cmd)) ELSE out

\* Every raw line with its '\r'-separated pieces, one line after the other.
RECURSIVE Flatten(_)
Flatten(raw) ==
    IF raw = <<>> THEN <<>>
    ELSE IF Len(raw) = 1 THEN Head(raw)
    ELSE Flatten(FirstHalf(raw)) \o Flatten(SecondHalf(raw))

\* text=True: stdout is decoded with universal newlines, so a '\r' inside a
\* line of the tool becomes a '\n' of the returned text.
DecodeText(cmd, out) ==
    IF cmd \in LineCommands THEN Flatten(out)
    ELSE [i \in 1..Len(out) |-> IF out[i] = "\r" THEN "\n" ELSE out[i]]

\* A mutant of run_command: check=True, a non-zero exit status raises inside
\* the try and "" is returned.
run_command_checked(cmd, o) ==
    IF o.kind = "exit" /\ o.rc = 0
    THEN DecodeText(cmd, ShellStdout(cmd, o.out)) ELSE <<>>

\* run_command(cmd) when the execution of cmd ends as o says:
\*   kind "exit"     the shell ran and exited with status rc, stdout out
\*   kind "timeout"  subprocess.run raised TimeoutExpired after 30 s
\*   kind "oserror"  subprocess.run raised OSError (no shell, no process)
\*   kind "decode"   stdout is not valid text, UnicodeDecodeError
\* The bare except returns "" for every exception; the exit status is
\* never looked at.
run_command(cmd, o) ==
    IF o.kind = "exit" THEN DecodeText(cmd, ShellStdout(cmd, o.out)) ELSE <<>>

\* The record of one call in the log of calls.
Call(cmd, o) == [cmd |-> cmd, kind |-> o.kind, rc |-> o.rc,
                 result |-> run_command(cmd, o)]

\* self.run_command(cmd) on host h
Run(h, cmd) == run_command(cmd, h.cmd[cmd])

IsLinux(h) == h.platform = "Linux"

\* d[k] = v on a dict
Store(d, k, v) == [x \in DOMAIN d \cup {k} |-> IF x = k THEN v ELSE d[x]]

\* The log entries of the calls of cmds, in that order.
CallsOf(h, cmds) == [i \in 1..Len(cmds) |-> Call(cmds[i], h.cmd[cmds[i]])]

----------------------------------------------------------------------------
(* collect_system_info                                                     *)

collect_system_info(h) ==
    IF IsLinux(h)
    THEN [os |-> h.platform, os_release |-> h.ident.release,
          os_version |-> h.ident.version, machine |-> h.ident.machine,
          processor |-> h.ident.processor, hostname |-> h.hostname,
          python_version |-> h.ident.python,
          uptime |-> Strip(Run(h, UPTIME)), kernel |-> Strip(Run(h, UNAME))]
    ELSE [os |-> h.platform, os_release |-> h.ident.release,
          os_version |-> h.ident.version, machine |-> h.ident.machine,
          processor |-> h.ident.processor, hostname |-> h.hostname,
          python_version |-> h.ident.python]

system_info_commands(h) == IF IsLinux(h) THEN <<UPTIME, UNAME>> ELSE <<>>

----------------------------------------------------------------------------
(* collect_processes                                                       *)

\* A mutant of ProcessRecord: the command is stored whole.
ProcessRecordWhole(parts) ==
    [user |-> parts[1], pid |-> parts[2], cpu |-> parts[3], mem |-> parts[4],
     command |-> parts[11]]

\* The record appended for a line of 11 parts.
ProcessRecord(parts) ==
    [user |-> parts[1], pid |-> parts[2], cpu |-> parts[3], mem |-> parts[4],
     command |-> Take(parts[11], CommandCap)]

\* The loop over the lines of ps: blank lines and lines of fewer than 11
\* parts are skipped.
\* (Each iteration only appends, so the list built over the lines is the
\* concatenation of the lists built over their two halves.)
RECURSIVE ParseProcesses(_)
ParseProcesses(lines) ==
    IF lines = <<>> THEN <<>>
    ELSE IF Len(lines) = 1
    THEN LET line == Head(lines)
             parts == SplitNone(line, SplitMaxsplit)
         IN  IF line # <<>> /\ Len(parts) >= PsFields
             THEN <<ProcessRecord(parts)>> ELSE <<>>
    ELSE ParseProcesses(FirstHalf(lines)) \o ParseProcesses(SecondHalf(lines))

\* processes[:100]
LimitProcesses(processes) == Take(processes, ProcessCap)

collect_processes(h) ==
    IF IsLinux(h)
    THEN LimitProcesses(ParseProcesses(StripSplitLines(Run(h, PS))))
    ELSE <<>>

processes_commands(h) == IF IsLinux(h) THEN <<PS>> ELSE <<>>

----------------------------------------------------------------------------
(* collect_network and get_interfaces                                      *)

ConnectionRecord(parts) ==
    [proto |-> parts[1], local |-> parts[5],
     remote |-> IF Len(parts) > 5 THEN parts[6] ELSE <<>>,
     state |-> IF Len(parts) > 1 THEN parts[2] ELSE <<>>]

\* The loop over the lines of ss after the header line.
RECURSIVE ParseConnections(_)
ParseConnections(lines) ==
    IF lines = <<>> THEN <<>>
    ELSE IF Len(lines) = 1
    THEN LET parts == Head(lines)
         IN  IF parts # <<>> /\ Len(parts) >= SsFields
             THEN <<ConnectionRecord(parts)>> ELSE <<>>
    ELSE ParseConnections(FirstHalf(lines))
         \o ParseConnections(SecondHalf(lines))

\* The connections list, which is stored as parsed: output.strip()
\* .split('\n')[1:] and the loop.
Connections(h) ==
    IF IsLinux(h)
    THEN ParseConnections(Drop(StripSplitLines(Run(h, SS)), 1))
    ELSE <<>>

\* A line of "ip addr show" keeps its indentation as a first token " ".
INDENT == <<" ">>

INET == <<"i", "n", "e", "t">>

EndsWith(s, suffix) ==
    Len(s) >= Len(suffix) /\ SubSeq(s, Len(s) - Len(suffix) + 1, Len(s)) = suffix

\* 'inet ' in line
HasInet(line) == \E i \in 1..(Len(line) - 1) : EndsWith(line[i], INET)

\* line.strip().split()
Words(line) == IF line # <<>> /\ Head(line) = INDENT THEN Tail(line) ELSE line

\* The loop of get_interfaces: current is the dict being filled, done the
\* interfaces appended so far.
RECURSIVE InterfaceLoop(_, _, _)
InterfaceLoop(lines, current, done) ==
    IF lines = <<>>
    THEN IF DOMAIN current # {} THEN Append(done, current) ELSE done
    ELSE LET line == Head(lines) IN
         IF line # <<>> /\ Head(line) # INDENT
         THEN LET parts == SplitOn(JoinTokens(line), ":")
                  name == IF Len(parts) > 1 THEN Strip(parts[2]) ELSE <<>>
              IN  InterfaceLoop(Tail(lines), [n \in {"name"} |-> name],
                                IF DOMAIN current # {}
                                THEN Append(done, current) ELSE done)
         ELSE IF HasInet(line)
         THEN LET parts == Words(line)
                  addr == IF Len(parts) > 1 THEN parts[2] ELSE <<>>
              IN  InterfaceLoop(Tail(lines), Store(current, "ipv4", addr), done)
         ELSE InterfaceLoop(Tail(lines), current, done)

get_interfaces(h) ==
    IF IsLinux(h)
    THEN InterfaceLoop(SplitLines(Run(h, IPADDR)), <<>>, <<>>)
    ELSE <<>>

collect_network(h) ==
    [connections |-> Connections(h), interfaces |-> get_interfaces(h)]

network_commands(h) ==
    IF IsLinux(h) THEN <<SS, SSL, IPADDR>> ELSE <<SSL>>

----------------------------------------------------------------------------
(* collect_users                                                           *)

UserRecord(parts) ==
    [username |-> parts[1], uid |-> parts[3], gid |-> parts[4],
     home |-> parts[6], shell |-> parts[7]]

\* uid >= 1000 or uid == 0
IsRealUser(uid) == uid >= RealUid \/ uid = 0

\* The loop over the lines of /etc/passwd, inside the try: int() raising
\* ValueError leaves the loop for the except clause, which passes, so the
\* lines after it are never read.
RECURSIVE ParsePasswd(_)
ParsePasswd(lines) ==
    IF lines = <<>> THEN <<>>
    ELSE LET parts == SplitOn(Strip(Head(lines)), ":")
             uid == ParseInt(parts[3])
         IN  IF Len(parts) >= PasswdFields
             THEN IF ~uid.ok THEN <<>>
                  ELSE (IF IsRealUser(uid.val)
                        THEN <<UserRecord(parts)>> ELSE <<>>)
                       \o ParsePasswd(Tail(lines))
             ELSE ParsePasswd(Tail(lines))

\* The accounts list: open() raising (no file, no permission) leaves it empty.
Accounts(h) ==
    IF IsLinux(h) /\ h.passwd.readable THEN ParsePasswd(h.passwd.lines)
    ELSE <<>>

\* A mutant of collect_users: the sessions are listed on every platform.
collect_users_everywhere(h) ==
    [accounts |-> Accounts(h), logged_in |-> StripSplitLines(Run(h, WHO))]

collect_users(h) ==
    [accounts |-> Accounts(h),
     logged_in |-> IF IsLinux(h) THEN StripSplitLines(Run(h, WHO)) ELSE <<>>]

users_commands(h) == IF IsLinux(h) THEN <<WHO, WHO>> ELSE <<>>

----------------------------------------------------------------------------
(* collect_scheduled_tasks                                                 *)

\* os.path.exists(d) and the outcome of os.listdir(d): h.dirs[d].state is
\* "absent", "ok" (listdir returns h.dirs[d].files) or "fail" (the path
\* exists and listdir raises: no read permission, not a directory, removed
\* in between).
Exists(h, d) == h.dirs[d].state # "absent"

ListdirRaises(h, d) == h.dirs[d].state = "fail"

\* if text: entries.append({'type': type, 'content': text[:cap]})
ContentEntry(type, text, cap) ==
    IF text # <<>> THEN << [type |-> type, content |-> Take(text, cap)] >>
    ELSE <<>>

\* if text: entries.append({'type': type, 'content': text})
WholeEntry(type, text) ==
    IF text # <<>> THEN << [type |-> type, content |-> text] >> ELSE <<>>

\* The loop over the cron directories from the i-th on: listdir is not
\* guarded, its exception leaves collect_scheduled_tasks.
RECURSIVE CronDirLoop(_, _, _)
CronDirLoop(h, i, tasks) ==
    IF i > Len(cron_dirs) THEN [raised |-> FALSE, value |-> tasks]
    ELSE IF ~Exists(h, cron_dirs[i]) THEN CronDirLoop(h, i + 1, tasks)
    ELSE IF ListdirRaises(h, cron_dirs[i])
    THEN [raised |-> TRUE, value |-> tasks]
    ELSE CronDirLoop(h, i + 1,
             Append(tasks, [type |-> cron_dirs[i],
                            files |-> h.dirs[cron_dirs[i]].files]))

\* The outcome of collect_scheduled_tasks: raised, or the tasks list.
collect_scheduled_tasks(h) ==
    IF ~IsLinux(h) THEN [raised |-> FALSE, value |-> <<>>]
    ELSE LET dirs == CronDirLoop(h, 1,
                         ContentEntry("system_crontab", Run(h, CRONTAB), CronCap)
                         \o ContentEntry("user_crontab", Run(h, USERCRON), CronCap))
         IN  IF dirs.raised THEN dirs
             ELSE [raised |-> FALSE,
                   value |-> dirs.value
                             \o WholeEntry("systemd_timers", Run(h, TIMERS))]

scheduled_tasks_commands(h) ==
    IF ~IsLinux(h) THEN <<>>
    ELSE IF collect_scheduled_tasks(h).raised THEN <<CRONTAB, USERCRON>>
    ELSE <<CRONTAB, USERCRON, TIMERS>>

----------------------------------------------------------------------------
(* collect_autostart                                                       *)

collect_autostart(h) ==
    IF ~IsLinux(h) THEN [raised |-> FALSE, value |-> <<>>]
    ELSE LET services == WholeEntry("systemd_enabled", Run(h, SERVICES)) IN
         IF ~Exists(h, INITD)
         THEN [raised |-> FALSE,
               value |-> services
                         \o ContentEntry("rc.local", Run(h, RCLOCAL), RcLocalCap)]
         ELSE IF ListdirRaises(h, INITD)
         THEN [raised |-> TRUE, value |-> services]
         ELSE [raised |-> FALSE,
               value |-> services
                         \o << [type |-> "initd", files |-> h.dirs[INITD].files] >>
                         \o ContentEntry("rc.local", Run(h, RCLOCAL), RcLocalCap)]

autostart_commands(h) ==
    IF ~IsLinux(h) THEN <<>>
    ELSE IF collect_autostart(h).raised THEN <<SERVICES>>
    ELSE <<SERVICES, RCLOCAL>>

----------------------------------------------------------------------------
(* collect_recent_files                                                    *)

\* os.stat(path) raises for the paths of h.gone (deleted or unreadable since
\* find listed them); datetime.fromtimestamp raising is caught the same way.
StatRaises(h, path) == path \in h.gone

RecentRecord(h, path) ==
    [path |-> path, mtime |-> h.mtime, size |-> Len(path)]

\* A mutant of StatLoop: the try is missing its effect, a path whose stat
\* fails is recorded all the same.
RECURSIVE StatLoopKeep(_, _)
StatLoopKeep(h, lines) ==
    IF lines = <<>> THEN <<>>
    ELSE IF Len(lines) = 1
    THEN IF Head(lines) # <<>>
         THEN <<RecentRecord(h, JoinTokens(Head(lines)))>> ELSE <<>>
    ELSE StatLoopKeep(h, FirstHalf(lines)) \o StatLoopKeep(h, SecondHalf(lines))

\* The loop over the lines of find: a blank line is skipped, a path whose
\* stat raises is passed over.
RECURSIVE StatLoop(_, _)
StatLoop(h, lines) ==
    IF lines = <<>> THEN <<>>
    ELSE IF Len(lines) = 1
    THEN LET path == JoinTokens(Head(lines))
         IN  IF Head(lines) # <<>> /\ ~StatRaises(h, path)
             THEN <<RecentRecord(h, path)>> ELSE <<>>
    ELSE StatLoop(h, FirstHalf(lines)) \o StatLoop(h, SecondHalf(lines))

\* recent[:50]
LimitRecent(recent) == Take(recent, RecentCap)

collect_recent_files(h) ==
    IF IsLinux(h)
    THEN LimitRecent(StatLoop(h, StripSplitLines(Run(h, FIND))))
    ELSE <<>>

recent_files_commands(h) == IF IsLinux(h) THEN <<FIND>> ELSE <<>>

----------------------------------------------------------------------------
(* collect_logs                                                            *)

\* The log files that exist and whose tail is not empty, by index.
LoggedFiles(h) ==
    {i \in 1..Len(log_files) :
        h.logs[i] /\ Run(h, TailCmd(i)) # <<>>}

collect_logs(h) ==
    IF IsLinux(h) /\ LoggedFiles(h) # {}
    THEN [f \in {log_files[i] : i \in LoggedFiles(h)} |->
             LET i == CHOOSE j \in 1..Len(log_files) : log_files[j] = f
             IN  Run(h, TailCmd(i))]
    ELSE <<>>

logs_commands(h) ==
    IF IsLinux(h)
    THEN LET idx == SelectSeq(<<1, 2, 3, 4>>, LAMBDA i : h.logs[i])
         IN  [k \in 1..Len(idx) |-> TailCmd(idx[k])]
    ELSE <<>>

----------------------------------------------------------------------------
(* IRCollector.__init__, save_results and run_collection                   *)

MetaKeys == {"collection_time", "hostname", "platform"}

\* The collectors in the order run_collection calls them; each stores its
\* fragment under the key of its name.
Collectors == <<"system_info", "processes", "network", "users",
                "scheduled_tasks", "autostart", "recent_files", "logs">>

CategoryKeys == {Collectors[i] : i \in 1..Len(Collectors)}

\* self.data after __init__
InitialData(h) ==
    [collection_time |-> h.clock, hostname |-> h.hostname,
     platform |-> h.platform]

NoArtifact == [written |-> FALSE, path |-> <<>>, content |-> <<>>]

\* The file save_results writes: json.dump writes every key of self.data
\* with its value (str, int, list and dict values need no default=str).
save_results(h, d) ==
    [written |-> TRUE,
     path |-> <<"ir_collection_", h.savetime, ".json">>,
     content |-> d]

\* A mutant of StoreFragment: the fragment is merged into the snapshot
\* (self.data.update) when it is a dict, instead of stored under its key.
StoreFragmentMerged(d, key, frag) ==
    IF key = "system_info"
    THEN [x \in DOMAIN d \cup DOMAIN frag |->
             IF x \in DOMAIN frag THEN frag[x] ELSE d[x]]
    ELSE Store(d, key, frag)

\* A mutant of StoreFragment: nothing is stored for an empty fragment.
StoreFragmentNonEmpty(d, key, frag) ==
    IF frag = <<>> THEN d ELSE Store(d, key, frag)

\* self.data[key] = fragment, the last statement of every collector
StoreFragment(d, key, frag) == Store(d, key, frag)

\* A collector returns: its fragment is stored, its calls are logged, and
\* run_collection goes on to its next statement.
Returns(key, frag, cmds, next) ==
    /\ data' = StoreFragment(data, key, frag)
    /\ ran' = Append(ran, key)
    /\ calls' = calls \o CallsOf(host, cmds)
    /\ pc' = next
    /\ UNCHANGED <<host, exc, artifact>>

\* A collector raises: nothing is stored, the exception leaves
\* run_collection (nothing in it or in main catches).
Raises(key, cmds, exception) ==
    /\ ran' = Append(ran, key)
    /\ calls' = calls \o CallsOf(host, cmds)
    /\ pc' = "aborted"
    /\ exc' = exception
    /\ UNCHANGED <<host, data, artifact>>

SystemInfo ==
    /\ pc = "system_info"
    /\ Returns("system_info", collect_system_info(host),
               system_info_commands(host), "processes")

Processes ==
    /\ pc = "processes"
    /\ Returns("processes", collect_processes(host),
               processes_commands(host), "network")

Network ==
    /\ pc = "network"
    /\ Returns("network", collect_network(host),
               network_commands(host), "users")

Users ==
    /\ pc = "users"
    /\ Returns("users", collect_users(host),
               users_commands(host), "scheduled_tasks")

ScheduledTasks ==
    /\ pc = "scheduled_tasks"
    /\ IF collect_scheduled_tasks(host).raised
       THEN Raises("scheduled_tasks", scheduled_tasks_commands(host), "OSError")
       ELSE Returns("scheduled_tasks", collect_scheduled_tasks(host).value,
                    scheduled_tasks_commands(host), "autostart")

Autostart ==
    /\ pc = "autostart"
    /\ IF collect_autostart(host).raised
       THEN Raises("autostart", autostart_commands(host), "OSError")
       ELSE Returns("autostart", collect_autostart(host).value,
                    autostart_commands(host), "recent_files")

RecentFiles ==
    /\ pc = "recent_files"
    /\ Returns("recent_files", collect_recent_files(host),
               recent_files_commands(host), "logs")

Logs ==
    /\ pc = "logs"
    /\ Returns("logs", collect_logs(host), logs_commands(host), "save")

\* filepath = self.save_results(); return str(filepath). The output
\* directory exists since __init__ (mkdir); the write itself is taken to
\* succeed, the file system of the artifact is not one of the data sources.
SaveResults ==
    /\ pc = "save"
    /\ artifact' = save_results(host, data)
    /\ pc' = "done"
    /\ UNCHANGED <<host, data, exc, ran, calls>>

Next ==
    \/ SystemInfo
    \/ Processes
    \/ Network
    \/ Users
    \/ ScheduledTasks
    \/ Autostart
    \/ RecentFiles
    \/ Logs
    \/ SaveResults

----------------------------------------------------------------------------
(* The hosts the model runs the tool on.                                   *)

Ch(c) == <<c>>

\* A line of ps with a command of n characters (two words when n > 3);
\* with n = 0 the line has 10 fields only.
PsLine(i, n) ==
    <<Ch("u"), Decimal(i), Ch("0"), Ch("0"), Ch("v"), Ch("r"), Ch("?"),
      Ch("S"), Ch("s"), Ch("t")>>
    \o (IF n = 0 THEN <<>>
        ELSE IF n <= 3 THEN <<Rep(n, "x")>>
        ELSE <<Rep(2, "x"), Rep(n - 3, "y")>>)

\* A line of ss for the i-th socket.
SsLine(i) ==
    <<Ch("t"), Ch("E"), Ch("0"), Ch("0"), <<"l">> \o Decimal(i),
      <<"r">> \o Decimal(i)>>

SsHeader == <<Ch("N"), Ch("S"), Ch("R"), Ch("S"), Ch("L"), Ch("P")>>

\* The i-th path find lists.
RecentPath(i) == <<"/", "f">> \o Decimal(i)

\* Tool outputs: n raw lines; with cr every raw line holds a '\r', that is
\* two lines of the decoded text.
PsOutput(n, len, cr) ==
    [i \in 1..n |-> IF cr THEN <<PsLine(i, len), PsLine(i, len)>>
                    ELSE <<PsLine(i, len)>>]

SsOutput(n, cr) ==
    << <<SsHeader>> >>
    \o [i \in 1..n |-> IF cr THEN <<SsLine(i), SsLine(i)>> ELSE <<SsLine(i)>>]

\* find lists n paths; with blanks an empty line follows every path.
FindOutput(n, blanks) ==
    [i \in 1..n |-> IF blanks THEN << <<RecentPath(i)>>, <<>> >>
                    ELSE << <<RecentPath(i)>> >>]

\* A raw line without '\r': one line of the decoded text.
Raw(line) == <<line>>

IpOutput ==
    <<Raw(<< <<"1", ":">>, <<"l", "o", ":">>, Ch("L") >>),
      Raw(<<INDENT, INET, <<"1", "2", "7">>, Ch("s")>>),
      Raw(<< <<"2", ":">>, <<"e", "0", ":">>, Ch("B") >>),
      Raw(<<INDENT, INET \o <<"6">>, Ch("f")>>)>>

Commands ==
    {UPTIME, UNAME, PS, SS, SSL, IPADDR, WHO, CRONTAB, USERCRON, TIMERS,
     SERVICES, RCLOCAL, FIND} \cup {TailCmd(i) : i \in 1..Len(log_files)}

\* What each command writes on an ordinary host.
DefaultOut(cmd) ==
    CASE cmd = UPTIME -> <<"u", "p", "\n">>
      [] cmd = UNAME -> <<"6", "\n">>
      [] cmd = PS -> PsOutput(2, 2, FALSE)
      [] cmd = SS -> SsOutput(2, FALSE)
      [] cmd = SSL -> SsOutput(1, FALSE)
      [] cmd = IPADDR -> IpOutput
      [] cmd = WHO -> <<Raw(<<Ch("u"), Ch("p")>>)>>
      [] cmd = CRONTAB -> Rep(3, "c")
      [] cmd = USERCRON -> Rep(2, "j")
      [] cmd = TIMERS -> <<Raw(<<Ch("T")>>)>>
      [] cmd = SERVICES -> <<Raw(<<Ch("a")>>), Raw(<<Ch("b")>>)>>
      [] cmd = RCLOCAL -> Rep(2, "r")
      [] cmd = FIND -> FindOutput(3, FALSE)
      [] OTHER -> <<"l", "\n">>

\* Every command of the host ends the same way.
CmdMode(m) ==
    [c \in Commands |->
        CASE m = "ok" -> [kind |-> "exit", rc |-> 0, out |-> DefaultOut(c)]
          [] m = "nonzero" -> [kind |-> "exit", rc |-> 1, out |-> DefaultOut(c)]
          [] m = "empty" -> [kind |-> "exit", rc |-> 127, out |-> <<>>]
          [] m = "timeout" -> [kind |-> "timeout", rc |-> 0 - 1,
                               out |-> DefaultOut(c)]
          [] m = "oserror" -> [kind |-> "oserror", rc |-> 0 - 1, out |-> <<>>]]

CmdModes == {"ok", "nonzero", "empty", "timeout", "oserror"}

PasswdLine(name, uid) ==
    JoinWith(<<Ch(name), Ch("x"), uid, Ch("0"), Ch("g"), Ch("/"), Ch("s")>>, ":")
    \o <<"\n">>

DirStates == {"absent", "ok", "fail"}

Dir(state) == [state |-> state, files |-> IF state = "ok" THEN <<Ch("f")>> ELSE <<>>]

BaseHost ==
    [platform |-> "Linux", hostname |-> "host1", clock |-> "t0",
     savetime |-> "t1", mtime |-> "m0",
     ident |-> [release |-> "r", version |-> "v", machine |-> "m",
                processor |-> "p", python |-> "3"],
     cmd |-> CmdMode("ok"),
     passwd |-> [readable |-> TRUE,
                 lines |-> <<PasswdLine("r", <<"0">>),
                             PasswdLine("d", <<"1">>),
                             PasswdLine("a", <<"1", "0", "0", "0">>)>>],
     dirs |-> [d \in {cron_dirs[i] : i \in 1..Len(cron_dirs)} \cup {INITD} |->
                  Dir("ok")],
     gone |-> {},
     logs |-> <<TRUE, FALSE, FALSE, TRUE>>]

Platforms == {"Linux", "Darwin"}

\* Hosts that differ in platform, in how the commands end, in whether
\* /etc/passwd can be opened, in the cron and init directories and in the
\* log files that exist.
PipelineHosts ==
    {[BaseHost EXCEPT !.platform = p, !.cmd = CmdMode(m),
                      !.passwd.readable = r,
                      !.dirs["/etc/cron.d"] = Dir(d1),
                      !.dirs["/etc/cron.hourly"] = Dir(d2),
                      !.dirs[INITD] = Dir(d3),
                      !.logs = lg] :
        p \in Platforms, m \in CmdModes, r \in BOOLEAN,
        d1 \in DirStates, d2 \in {"absent", "fail"}, d3 \in DirStates,
        lg \in {<<TRUE, FALSE, FALSE, TRUE>>, <<FALSE, FALSE, FALSE, FALSE>>}}

\* The sizes around a cap: none, one, and from one below the cap to MaxOver
\* above it.
Around(cap) == {0, 1} \cup {cap + d : d \in (0 - 1)..MaxOver}

WithOut(h, cmd, out) == [h EXCEPT !.cmd[cmd].out = out]

\* Hosts whose tools write more than the collectors keep: many processes,
\* long command lines, many sockets, long crontabs and rc.local files.
CapsHosts ==
    {WithOut(BaseHost, PS, PsOutput(n, len, cr)) :
        n \in Around(ProcessCap), len \in {2, CommandCap + MaxOver},
        cr \in BOOLEAN}
    \cup {WithOut(BaseHost, PS, PsOutput(1, len, FALSE)) :
        len \in Around(CommandCap)}
    \cup {WithOut(BaseHost, SS, SsOutput(n, cr)) :
        n \in Around(SsHead), cr \in BOOLEAN}
    \cup {WithOut(WithOut(BaseHost, CRONTAB, Rep(n, "c")), USERCRON, Rep(m, "j")) :
        n \in Around(CronCap), m \in {0, CronCap + MaxOver}}
    \cup {WithOut(BaseHost, RCLOCAL, Rep(n, "r")) : n \in Around(RcLocalCap)}
    \cup {WithOut(WithOut(WithOut(WithOut(BaseHost,
              PS, PsOutput(ProcessCap + MaxOver, CommandCap + MaxOver, FALSE)),
              CRONTAB, Rep(CronCap + MaxOver, "c")),
              USERCRON, Rep(CronCap + MaxOver, "j")),
              RCLOCAL, Rep(RcLocalCap + MaxOver, "r"))}

\* Which of the n listed paths are gone when they are stat'ed.
GonePatterns == {"none", "all", "odd", "fifteenth", "firstten"}

Gone(g, n) ==
    {RecentPath(i) : i \in {j \in 1..n :
        CASE g = "none" -> FALSE
          [] g = "all" -> TRUE
          [] g = "odd" -> j % 2 = 1
          [] g = "fifteenth" -> j % 15 = 0
          [] g = "firstten" -> j <= 10}}

\* Hosts where find lists many files and some are gone before the stat.
RecentHosts ==
    {[WithOut(BaseHost, FIND, FindOutput(n, blanks)) EXCEPT !.gone = Gone(g, n)] :
        n \in Around(RecentCap) \cup Around(FindHead) \cup {FindHead + RecentCap},
        blanks \in BOOLEAN, g \in GonePatterns}

\* The lines /etc/passwd may hold: root, a service account, two real users,
\* a line whose uid is not a number, a line of three fields, an empty line.
PasswdLines ==
    {PasswdLine("r", <<"0">>), PasswdLine("s", <<"9", "9", "9">>),
     PasswdLine("a", <<"1", "0", "0", "0">>),
     PasswdLine("b", <<"1", "0", "0", "1">>),
     PasswdLine("n", <<"x", "1">>),
     <<"r", ":", "x", ":", "0", "\n">>, <<"\n">>}

RECURSIVE SeqsUpTo(_, _)
SeqsUpTo(S, n) ==
    IF n = 0 THEN {<<>>}
    ELSE LET shorter == SeqsUpTo(S, n - 1)
         IN  shorter \cup {Append(q, x) : q \in shorter, x \in S}

\* Hosts that differ in the content of /etc/passwd.
UsersHosts ==
    {[BaseHost EXCEPT !.passwd.lines = ls] : ls \in SeqsUpTo(PasswdLines, MaxPasswd)}

\* The ways the execution of a command may end.
Outcomes ==
    {[kind |-> "exit", rc |-> rc, out |-> out] :
        rc \in {0, 1, 127}, out \in SeqsUpTo({"a", "\n"}, MaxStdout)}
    \cup {[kind |-> "timeout", rc |-> 0 - 1, out |-> out] :
        out \in SeqsUpTo({"a", "\n"}, MaxStdout)}
    \cup {[kind |-> k, rc |-> 0 - 1, out |-> <<>>] : k \in {"oserror", "decode"}}

\* Hosts whose commands all end the way o says; the line-oriented tools
\* have written their usual output by then.
CmdHosts ==
    {[BaseHost EXCEPT
        !.platform = p,
        !.cmd = [c \in Commands |->
                    IF c \in LineCommands
                    THEN [o EXCEPT !.out = IF o.kind \in {"exit", "timeout"}
                                           THEN DefaultOut(c) ELSE <<>>]
                    ELSE o]] :
        p \in Platforms, o \in Outcomes}
    \cup {[BaseHost EXCEPT
             !.cmd[UPTIME] = [kind |-> "timeout", rc |-> 0 - 1, out |-> <<"u">>],
             !.cmd[UNAME] = [kind |-> "exit", rc |-> 1, out |-> <<"6", "\n">>],
             !.cmd[CRONTAB] = [kind |-> "oserror", rc |-> 0 - 1, out |-> <<>>],
             !.cmd[RCLOCAL] = [kind |-> "exit", rc |-> 1, out |-> <<>>]]}

Hosts == PipelineHosts \cup CapsHosts \cup RecentHosts \cup UsersHosts \cup CmdHosts

Init ==
    /\ host \in Hosts
    /\ pc = "system_info"
    /\ data = InitialData(host)
    /\ exc = "none"
    /\ ran = <<>>
    /\ calls = <<>>
    /\ artifact = NoArtifact

Spec == Init /\ [][Next]_vars

----------------------------------------------------------------------------
(* The claims.                                                             *)

Finished == pc \in {"done", "aborted"}

Stored(key) == key \in DOMAIN data

\* C1: whatever the data sources do (commands timing out, failing or
\* writing nothing, /etc/passwd unreadable, a cron directory or /etc/init.d
\* that exists and cannot be listed, stats failing), run_collection never
\* ends with an exception, and when it has ended all 8 collectors have
\* completed and save_results has returned the artifact.
C1_AlwaysProducesOutput ==
    /\ exc = "none"
    /\ pc # "aborted"
    /\ Finished => artifact.written /\ CategoryKeys \subseteq DOMAIN data

\* C2: when save_results serializes the snapshot its keys are exactly the 3
\* metadata keys and the 8 category keys, however many commands failed, and
\* those are the keys of the written artifact.
C2_SnapshotKeys ==
    LET keys == {"collection_time", "hostname", "platform", "system_info",
                 "processes", "network", "users", "scheduled_tasks",
                 "autostart", "recent_files", "logs"}
    IN  /\ pc = "save" => DOMAIN data = keys
        /\ artifact.written => DOMAIN artifact.content = keys

\* C2 witness: the snapshot was written on a Linux host where every command
\* timed out and /etc/passwd could not be opened.
C2_Witness ==
    /\ pc = "done" /\ artifact.written /\ IsLinux(host)
    /\ \A c \in Commands : host.cmd[c].kind = "timeout"
    /\ ~host.passwd.readable
    /\ data.processes = <<>>

\* C3: whatever text run_command returns, the stored processes list has at
\* most 100 entries, the stored recent_files list at most 50 and the stored
\* connections list at most 100.
C3_ListCaps ==
    /\ Stored("processes") => Len(data.processes) <= 100
    /\ Stored("recent_files") => Len(data.recent_files) <= 50
    /\ Stored("network") => Len(data.network.connections) <= 100

\* C4: in every snapshot each process record's command has at most 100
\* characters, the content of every system_crontab and user_crontab entry
\* at most 1000, and the content of the rc.local entry at most 500.
C4_TextCaps ==
    /\ Stored("processes") =>
          \A i \in DOMAIN data.processes :
              Len(data.processes[i].command) <= 100
    /\ Stored("scheduled_tasks") =>
          \A i \in DOMAIN data.scheduled_tasks :
              data.scheduled_tasks[i].type \in {"system_crontab", "user_crontab"}
                  => Len(data.scheduled_tasks[i].content) <= 1000
    /\ Stored("autostart") =>
          \A i \in DOMAIN data.autostart :
              data.autostart[i].type = "rc.local"
                  => Len(data.autostart[i].content) <= 500

\* C4 witness: a snapshot whose tools wrote a command line of more than 100
\* characters, crontabs of more than 1000 and an rc.local of more than 500,
\* with all three entries stored.
C4_Witness ==
    /\ pc = "done"
    /\ Len(host.cmd[CRONTAB].out) > 1000
    /\ Len(host.cmd[USERCRON].out) > 1000
    /\ Len(host.cmd[RCLOCAL].out) > 500
    /\ \E i \in DOMAIN host.cmd[PS].out :
          Len(JoinTokens(Drop(host.cmd[PS].out[i][1], 10))) > 100
    /\ \E i \in DOMAIN data.processes : Len(data.processes[i].command) = 100
    /\ \E i \in DOMAIN data.scheduled_tasks :
          /\ data.scheduled_tasks[i].type = "user_crontab"
          /\ Len(data.scheduled_tasks[i].content) = 1000
    /\ \E i \in DOMAIN data.autostart :
          /\ data.autostart[i].type = "rc.local"
          /\ Len(data.autostart[i].content) = 500

\* The fields of a line of the account source, and whether the line is a
\* well-formed entry that qualifies: at least 7 fields, a numeric uid that
\* is 0 or at least 1000.
AccountFields(line) == SplitOn(Strip(line), ":")

Qualifies(line) ==
    /\ Len(AccountFields(line)) >= 7
    /\ ParseInt(AccountFields(line)[3]).ok
    /\ LET uid == ParseInt(AccountFields(line)[3]).val
       IN  uid >= 1000 \/ uid = 0

\* C5: for every content of /etc/passwd the accounts list is, in file order,
\* exactly the well-formed entries with uid >= 1000 or uid 0: none with
\* 1 <= uid < 1000, none missing.
C5_AccountsExact ==
    (Stored("users") /\ IsLinux(host) /\ host.passwd.readable) =>
        LET kept == SelectSeq(host.passwd.lines, Qualifies)
        IN  /\ Len(data.users.accounts) = Len(kept)
            /\ \A i \in DOMAIN kept :
                  /\ data.users.accounts[i].username = AccountFields(kept[i])[1]
                  /\ data.users.accounts[i].uid = AccountFields(kept[i])[3]

C7_OrderedOnce ==
    LET order == <<"system_info", "processes", "network", "users",
                   "scheduled_tasks", "autostart", "recent_files", "logs">>
    IN  /\ Len(ran) <= 8 /\ ran = SubSeq(order, 1, Len(ran))
        /\ \A i \in 1..(Len(ran) - 1) : Stored(ran[i])
        /\ pc \in {"save", "done"} => \A i \in 1..8 : Stored(order[i])
        /\ artifact.written => pc = "done"
        /\ Finished => ran = order

\* The part of C7 that every run satisfies, also the runs an exception ends:
\* the order, at most one run of each collector, each fragment stored before
\* the next collector starts, save_results last.
C7_OrderWhileRunning ==
    LET order == <<"system_info", "processes", "network", "users",
                   "scheduled_tasks", "autostart", "recent_files", "logs">>
    IN  /\ Len(ran) <= 8 /\ ran = SubSeq(order, 1, Len(ran))
        /\ \A i \in 1..(Len(ran) - 1) : Stored(ran[i])
        /\ pc \in {"save", "done"} => \A i \in 1..8 : Stored(order[i])
        /\ artifact.written => pc = "done"
        /\ pc = "done" => ran = order

\* The text run_command returned to collect_recent_files, and the candidate
\* paths in it, in enumeration order.
FindResult ==
    LET i == CHOOSE j \in DOMAIN calls : calls[j].cmd = FIND
    IN  calls[i].result

Candidates ==
    LET lines == SelectSeq(FindResult, LAMBDA l : l # <<>>)
    IN  [i \in DOMAIN lines |-> lines[i][1]]

\* C8: for every candidate list and every set of candidates whose stat
\* fails, the recent_files fragment is exactly the first 50 candidates whose
\* stat succeeded, in enumeration order, and holds none of the failed paths.
C8_RecentFiles ==
    (Stored("recent_files") /\ IsLinux(host)) =>
        LET ok == SelectSeq(Candidates, LAMBDA path : path \notin host.gone)
            first == SubSeq(ok, 1, IF Len(ok) < 50 THEN Len(ok) ELSE 50)
        IN  /\ Len(data.recent_files) = Len(first)
            /\ \A i \in DOMAIN first : data.recent_files[i].path = first[i]
            /\ \A i \in DOMAIN data.recent_files :
                  data.recent_files[i].path \notin host.gone

\* C8 witness: find listed 150 files, 10 of them were gone at stat time,
\* one of those among the first 50, and the fragment holds 50 records.
C8_Witness ==
    /\ Stored("recent_files")
    /\ Len(host.cmd[FIND].out) = 150
    /\ Cardinality(host.gone) = 10
    /\ RecentPath(15) \in host.gone
    /\ Len(data.recent_files) = 50
    /\ data.recent_files[50].path = RecentPath(53)

\* C9: on a platform other than Linux every platform-specific fragment is
\* empty and of its shape, whatever the commands would write, no exception
\* ends the run, and the run goes on until the artifact is written.
C9_UnsupportedPlatform ==
    ~IsLinux(host) =>
        /\ Stored("processes") => data.processes = <<>>
        /\ Stored("network") =>
              data.network = [connections |-> <<>>, interfaces |-> <<>>]
        /\ Stored("users") => data.users = [accounts |-> <<>>, logged_in |-> <<>>]
        /\ Stored("scheduled_tasks") => data.scheduled_tasks = <<>>
        /\ Stored("autostart") => data.autostart = <<>>
        /\ Stored("recent_files") => data.recent_files = <<>>
        /\ Stored("logs") => DOMAIN data.logs = {}
        /\ exc = "none" /\ pc # "aborted"
        /\ pc = "done" \/ ENABLED Next
        /\ pc = "done" => artifact.written

\* C9 witness: a finished run on Darwin, where the commands would have
\* written output and the directories could not have been listed.
C9_Witness ==
    /\ pc = "done" /\ artifact.written
    /\ host.platform = "Darwin"
    /\ host.cmd[WHO].kind = "exit" /\ host.cmd[WHO].out # <<>>
    /\ host.dirs[INITD].state = "fail"
    /\ host.dirs["/etc/cron.d"].state = "fail"
    /\ Stored("logs") /\ Stored("users")

\* C10: a step of the pipeline adds at most the key of the collector it
\* runs and changes no value already in the snapshot (the metadata of
\* __init__, the fragments of earlier collectors); save_results changes
\* nothing in the snapshot and writes the stored values.
C10_Frame ==
    [][/\ \A k \in DOMAIN data : k \in DOMAIN data' /\ data'[k] = data[k]
       /\ DOMAIN data' \ DOMAIN data \subseteq {pc}
       /\ pc = "save" => data' = data /\ artifact'.content = data
       /\ \A k \in {"collection_time", "hostname", "platform"} :
             InitialData(host)[k] = data'[k]]_vars

\* C10 witness: the artifact is written, it holds the snapshot, and the
\* snapshot holds the metadata of the construction and all 8 fragments.
C10_Witness ==
    /\ pc = "done" /\ artifact.written
    /\ artifact.content = data
    /\ data.hostname = host.hostname /\ data.collection_time = host.clock
    /\ Cardinality(DOMAIN data) = 11

====
